---- MODULE Spec2Model ----
(***************************************************************************)
(* Model of the pen-plotter application: MachineSettings (validation,      *)
(* to_dict / from_dict, save / load) and the DrawingCanvas mouse handlers. *)
(*                                                                         *)
(* Lengths are integers counting thousandths of a millimetre (feed rates:  *)
(* thousandths of a mm/min), so 0.1 is 100 and 1000.0 is 1000000.  A       *)
(* Python float is a record [t, v]: t = "num" with value v, or t = "nan".  *)
(***************************************************************************)
EXTENDS Integers, Sequences, FiniteSets, TLC

VARIABLES
    s,             \* the live MachineSettings instance held by the caller: {} or {instance}
    arg,           \* the six field values handed to the constructor
    data,          \* the dictionary handed to from_dict / returned by to_dict
    files,         \* the file system: location -> content
    saved,         \* history: location -> the instance whose save last wrote it intact
    out,           \* the last call and its outcome
    drawing,       \* DrawingCanvas.drawing
    last_point,    \* DrawingCanvas.last_point: {} (None) or {point}
    current_path,  \* DrawingCanvas.current_path: {} (None) or {sequence of points}
    paths,         \* DrawingCanvas.paths
    raised         \* the exception the last canvas handler ended with ("" if none)

vars == <<s, arg, data, files, saved, out, drawing, last_point, current_path, paths, raised>>

settingsVars == <<s, arg, data, files, saved, out>>
canvasVars == <<drawing, last_point, current_path, paths, raised>>

----------------------------------------------------------------------------
(* Bounds of the model *)

\* z heights of the constructor / from_dict inputs: 0 .. MaxZ millimetres
MaxZ == 2
\* pen-up and safe-z heights the caller of the stateful specification constructs
\* with: 0 .. MaxHeldZ millimetres
MaxHeldZ == 1
\* number of keys outside the six required ones a dictionary may hold
MaxExtra == 1
\* canvas coordinates range over 0 .. MaxCoord
MaxCoord == 1
\* a path holds at most MaxPathLen points, the canvas at most MaxPaths paths
MaxPathLen == 2
MaxPaths == 1

----------------------------------------------------------------------------
(* Floats and Python values *)

Num(n) == [t |-> "num", v |-> n]
NaN == [t |-> "nan", v |-> 0]
\* non-numeric text such as "abc"
Str == [t |-> "str", v |-> 0]
\* text that float() reads as the number n, such as "1.0"
NumStr(n) == [t |-> "numstr", v |-> n]
\* the text "nan", which float() reads as NaN
NanStr == [t |-> "nanstr", v |-> 0]
None == [t |-> "none", v |-> 0]

IsNumber(x) == x.t = "num"

\* IEEE comparisons: every comparison with NaN is false
Le(a, b) == a.t = "num" /\ b.t = "num" /\ a.v <= b.v
Lt(a, b) == a.t = "num" /\ b.t = "num" /\ a.v < b.v
Gt(a, b) == a.t = "num" /\ b.t = "num" /\ a.v > b.v

MIN_DIMENSION == 100
MAX_DIMENSION == 1000000
MIN_FEED_RATE == 1000
MAX_FEED_RATE == 5000000

RequiredKeys ==
    {"bed_width", "bed_height", "feed_rate", "pen_up_position", "pen_down_position", "safe_z"}

Defaults ==
    [bed_width |-> Num(200000), bed_height |-> Num(200000), feed_rate |-> Num(1000000),
     pen_up_position |-> Num(1000), pen_down_position |-> Num(0), safe_z |-> Num(1000)]

----------------------------------------------------------------------------
(* Outcomes of a call: a returned instance or a raised exception *)

Returned(v) == [ok |-> TRUE, exc |-> "", msg |-> <<>>, missing |-> {}, value |-> {v}]
Raised(e, m) == [ok |-> FALSE, exc |-> e, msg |-> m, missing |-> {}, value |-> {}]
RaisedKeys(e, m, K) == [ok |-> FALSE, exc |-> e, msg |-> m, missing |-> K, value |-> {}]

----------------------------------------------------------------------------
(* Validation: each check yields the message of the ValueError it raises,  *)
(* or <<>> when it passes.                                                 *)

\* the dimension check with exclusive bounds
validate_dimensions_exclusive(c) ==
    IF ~(Lt(Num(MIN_DIMENSION), c.bed_width) /\ Lt(c.bed_width, Num(MAX_DIMENSION)))
    THEN <<"Bed width must be between 0.1 and 1000.0mm">>
    ELSE IF ~(Lt(Num(MIN_DIMENSION), c.bed_height) /\ Lt(c.bed_height, Num(MAX_DIMENSION)))
    THEN <<"Bed height must be between 0.1 and 1000.0mm">>
    ELSE <<>>

validate_dimensions(c) ==
    IF ~(Le(Num(MIN_DIMENSION), c.bed_width) /\ Le(c.bed_width, Num(MAX_DIMENSION)))
    THEN <<"Bed width must be between 0.1 and 1000.0mm">>
    ELSE IF ~(Le(Num(MIN_DIMENSION), c.bed_height) /\ Le(c.bed_height, Num(MAX_DIMENSION)))
    THEN <<"Bed height must be between 0.1 and 1000.0mm">>
    ELSE <<>>

validate_feed_rate(c) ==
    IF ~(Le(Num(MIN_FEED_RATE), c.feed_rate) /\ Le(c.feed_rate, Num(MAX_FEED_RATE)))
    THEN <<"Feed rate must be between 1.0 and 5000.0mm/min">>
    ELSE <<>>

validate_z_positions(c) ==
    IF Gt(c.pen_down_position, c.pen_up_position)
    THEN <<"Pen down position must be lower than pen up position">>
    ELSE IF Lt(c.safe_z, c.pen_up_position)
    THEN <<"Safe Z must be higher than pen up position">>
    ELSE <<>>

\* the checks called with the feed rate first
post_init_feed_first(c) ==
    IF validate_feed_rate(c) # <<>> THEN validate_feed_rate(c)
    ELSE IF validate_dimensions(c) # <<>> THEN validate_dimensions(c)
    ELSE validate_z_positions(c)

post_init(c) ==
    IF validate_dimensions(c) # <<>> THEN validate_dimensions(c)
    ELSE IF validate_feed_rate(c) # <<>> THEN validate_feed_rate(c)
    ELSE validate_z_positions(c)

\* MachineSettings(**kwargs): the dataclass __init__ rejects an unknown keyword,
\* fills an absent one with its default, and then runs __post_init__
MachineSettings(kwargs) ==
    IF ~(DOMAIN kwargs \subseteq RequiredKeys)
    THEN Raised("TypeError", <<"unexpected keyword argument">>)
    ELSE LET c == [k \in RequiredKeys |-> IF k \in DOMAIN kwargs THEN kwargs[k] ELSE Defaults[k]]
         IN IF post_init(c) # <<>> THEN Raised("ValueError", post_init(c)) ELSE Returned(c)

----------------------------------------------------------------------------
(* to_dict / from_dict *)

\* a dictionary that leaves out safe_z
to_dict_without_safe_z(i) == [k \in RequiredKeys \ {"safe_z"} |-> i[k]]

to_dict(i) == [k \in RequiredKeys |-> i[k]]

\* float(v)
float(v) ==
    CASE v.t = "num" -> Returned(v)
      [] v.t = "nan" -> Returned(NaN)
      [] v.t = "numstr" -> Returned(Num(v.v))
      [] v.t = "nanstr" -> Returned(NaN)
      [] v.t = "str" -> Raised("ValueError", <<"could not convert string to float">>)
      [] OTHER -> Raised("TypeError", <<"float() argument must be a string or a real number">>)

\* the set difference taken the wrong way round
missing_keys_reversed(d) == DOMAIN d \ RequiredKeys

missing_keys(d) == RequiredKeys \ DOMAIN d

\* the comprehension without its filter
kept_keys_unfiltered(d) == DOMAIN d

\* the keys the dict comprehension keeps
kept_keys(d) == {k \in DOMAIN d : k \in RequiredKeys}

\* the order in which the comprehension meets the items of the dictionary (the
\* dictionaries of the model list their keys in field order)
KeyOrder ==
    <<"bed_width", "bed_height", "feed_rate", "pen_up_position", "pen_down_position", "safe_z">>

\* the first item whose float() raises
first_bad(d) ==
    LET idx == {j \in 1..Len(KeyOrder) : KeyOrder[j] \in kept_keys(d) /\ ~float(d[KeyOrder[j]]).ok}
    IN KeyOrder[CHOOSE j \in idx : \A j2 \in idx : j <= j2]

from_dict(d) ==
    IF missing_keys(d) # {}
    THEN RaisedKeys("KeyError", <<"Missing required settings">>, missing_keys(d))
    ELSE IF \E k \in kept_keys(d) : ~float(d[k]).ok
    THEN \* float() raised ValueError or TypeError: both are caught and re-raised
         Raised("ValueError", <<"Invalid setting value">> \o float(d[first_bad(d)]).msg)
    ELSE LET r == MachineSettings([k \in kept_keys(d) |-> CHOOSE x \in float(d[k]).value : TRUE])
         IN IF r.ok THEN r
            ELSE \* ValueError of __post_init__ (or TypeError of __init__), caught alike
                 Raised("ValueError", <<"Invalid setting value">> \o r.msg)

----------------------------------------------------------------------------
(* Calls on the settings object *)

Done == [ok |-> TRUE, exc |-> "", msg |-> <<>>, missing |-> {}, value |-> {}]
NoKwargs == [k \in {} |-> NaN]
\* a file that does not exist
AbsentFile == [kind |-> "absent", members |-> NoKwargs]
\* a call record: the operation, the location it was given, its outcome, and (for load)
\* the content it found at the location
Call(op, l, r, c) == [op |-> op, loc |-> l, res |-> r, read |-> c]
NoCall == Call("none", "", Done, AbsentFile)

\* x = MachineSettings(**kw): x keeps its old value when the constructor raises
Construct(kw) ==
    /\ out' = Call("init", "", MachineSettings(kw), AbsentFile)
    /\ s' = IF MachineSettings(kw).ok THEN MachineSettings(kw).value ELSE s
    /\ UNCHANGED <<arg, data, files, saved>>
    /\ UNCHANGED canvasVars

\* y = MachineSettings.from_dict(x.to_dict()): x is left as it is, the dictionary and
\* the outcome are kept
RoundTrip ==
    /\ s # {}
    /\ data' = to_dict(CHOOSE i \in s : TRUE)
    /\ out' = Call("round_trip", "", from_dict(to_dict(CHOOSE i \in s : TRUE)), AbsentFile)
    /\ UNCHANGED <<s, arg, files, saved>>
    /\ UNCHANGED canvasVars

\* x = MachineSettings.from_dict(m)
FromDict(m) ==
    /\ out' = Call("from_dict", "", from_dict(m), AbsentFile)
    /\ s' = IF from_dict(m).ok THEN from_dict(m).value ELSE s
    /\ UNCHANGED <<arg, data, files, saved>>
    /\ UNCHANGED canvasVars

----------------------------------------------------------------------------
(* Canvas state while the settings specifications run *)

CanvasInit ==
    /\ drawing = FALSE
    /\ last_point = {}
    /\ current_path = {}
    /\ paths = <<>>
    /\ raised = ""

----------------------------------------------------------------------------
(* CtorSpec: the constructor on every combination of field values, then    *)
(* to_dict and from_dict on the instance it returned.                      *)

DimVals ==
    {Num(MIN_DIMENSION - 1), Num(MIN_DIMENSION), Num(200000), Num(MAX_DIMENSION),
     Num(MAX_DIMENSION + 10), NaN}
FeedVals ==
    {Num(MIN_FEED_RATE - 1), Num(MIN_FEED_RATE), Num(1000000), Num(MAX_FEED_RATE),
     Num(MAX_FEED_RATE + 1), NaN}
ZVals == {Num(1000 * z) : z \in 0..MaxZ} \cup {NaN}

Candidates ==
    [bed_width : DimVals, bed_height : DimVals, feed_rate : FeedVals,
     pen_up_position : ZVals, pen_down_position : ZVals, safe_z : ZVals]

NoFiles == [l \in {"settings.json"} |-> AbsentFile]
NoSaved == [l \in {"settings.json"} |-> {}]

CtorInit ==
    /\ arg \in Candidates
    /\ s = {}
    /\ data = NoKwargs
    /\ files = NoFiles
    /\ saved = NoSaved
    /\ out = NoCall
    /\ CanvasInit

CtorNext ==
    \/ Construct(arg)
    \/ RoundTrip

CtorSpec == CtorInit /\ [][CtorNext]_vars

----------------------------------------------------------------------------
(* DictSpec: from_dict on dictionaries that lack keys, hold values of      *)
(* every kind, and hold keys outside the required six.                     *)

Absent == [t |-> "absent", v |-> 0]
ZNums == {Num(1000 * z) : z \in 0..MaxZ}

RequiredParts ==
    [bed_width : {Absent, Num(200000), Num(MIN_DIMENSION - 1), Str},
     bed_height : {Absent, Num(200000), Num(MAX_DIMENSION + 10), None},
     feed_rate : {Absent, Num(1000000), Num(MAX_FEED_RATE + 1), NumStr(1000)},
     pen_up_position : {Absent} \cup ZNums \cup {NaN},
     pen_down_position : {Absent} \cup ZNums \cup {NanStr},
     safe_z : {Absent} \cup ZNums \cup {Str}]

Present(r) == [k \in {k2 \in RequiredKeys : r[k2] # Absent} |-> r[k]]

ExtraNames == <<"units", "comment", "version", "profile">>
ExtraKeys == {ExtraNames[j] : j \in 1..MaxExtra}
ExtraParts == UNION {[D -> {Num(5000), Str}] : D \in SUBSET ExtraKeys}

Mappings == {Present(r) @@ e : r \in RequiredParts, e \in ExtraParts}

DictInit ==
    /\ data \in Mappings
    /\ s = {}
    /\ arg = NoKwargs
    /\ files = NoFiles
    /\ saved = NoSaved
    /\ out = NoCall
    /\ CanvasInit

DictNext == FromDict(data)

DictSpec == DictInit /\ [][DictNext]_vars

----------------------------------------------------------------------------
(* Files.  A file is absent, holds text that is not JSON ("garbage"), a    *)
(* JSON array, or a JSON object whose members are JSON tokens.             *)

GarbageFile == [kind |-> "garbage", members |-> NoKwargs]
ArrayFile == [kind |-> "array", members |-> NoKwargs]
ObjectFile(m) == [kind |-> "object", members |-> m]

\* json.dump of one value: a float as a number token (NaN as the token NaN)
json_dump_value(v) ==
    CASE v.t = "num" -> [t |-> "number", v |-> v.v]
      [] v.t = "nan" -> [t |-> "NaN", v |-> 0]
      [] v.t = "numstr" -> [t |-> "string_number", v |-> v.v]
      [] v.t = "nanstr" -> [t |-> "string_nan", v |-> 0]
      [] v.t = "str" -> [t |-> "string", v |-> 0]
      [] OTHER -> [t |-> "null", v |-> 0]

\* json.load of one token
json_load_value(j) ==
    CASE j.t = "number" -> Num(j.v)
      [] j.t = "NaN" -> NaN
      [] j.t = "string_number" -> NumStr(j.v)
      [] j.t = "string_nan" -> NanStr
      [] j.t = "string" -> Str
      [] OTHER -> None

json_dump(d) == ObjectFile([k \in DOMAIN d |-> json_dump_value(d[k])])
json_load(c) == [k \in DOMAIN c.members |-> json_load_value(c.members[k])]

\* a save that keeps the members the file already holds
file_after_save_merged(i, old) ==
    IF old.kind = "object"
    THEN ObjectFile(old.members @@ json_dump(to_dict(i)).members)
    ELSE json_dump(to_dict(i))

\* the content of the file after a save that succeeds: open('w') truncates whatever
\* the file held, json.dump writes the whole dictionary
file_after_save(i, old) == json_dump(to_dict(i))

\* the outcome of load on a location whose content is c
load(c) ==
    CASE c.kind = "absent" -> MachineSettings(NoKwargs)
      [] c.kind = "garbage" -> Raised("JSONDecodeError", <<"Expecting value">>)
      [] c.kind = "array" -> Raised("AttributeError", <<"'list' object has no attribute 'keys'">>)
      [] OTHER -> from_dict(json_load(c))

----------------------------------------------------------------------------
(* Spec: one caller holding a settings object, and the files it saves to   *)
(* and loads from.                                                         *)

Locations == {"settings.json"}

HeldZ == {Num(1000 * z) : z \in 0..MaxHeldZ}

\* field values the caller constructs with
HeldCandidates ==
    [bed_width : {Num(200000)}, bed_height : {Num(200000)}, feed_rate : {Num(1000000)},
     pen_up_position : HeldZ, pen_down_position : {Num(0)}, safe_z : HeldZ]

\* the value the caller assigns to a field: 0.0 (out of bounds for a dimension and for
\* the feed rate, below a pen-up height of 1.0 for safe_z)
AssignVals == {Num(0)}

\* dictionaries the caller hands to from_dict
HeldDicts ==
    {to_dict(Defaults) @@ [units |-> Str],
     [k \in RequiredKeys \ {"safe_z"} |-> Defaults[k]],
     [to_dict(Defaults) EXCEPT !["feed_rate"] = Str]}

\* contents written to a location by something other than save
ForeignFiles ==
    {GarbageFile, ArrayFile,
     json_dump([k \in RequiredKeys \ {"safe_z"} |-> Defaults[k]]),
     json_dump([to_dict(Defaults) EXCEPT !["bed_width"] = Str]),
     json_dump([to_dict(Defaults) EXCEPT !["pen_down_position"] = Num(5000)]),
     json_dump([to_dict(Defaults) EXCEPT !["pen_up_position"] = NanStr,
                                         !["pen_down_position"] = Num(5000),
                                         !["safe_z"] = Num(0)]),
     json_dump([to_dict(Defaults) EXCEPT !["feed_rate"] = NumStr(2000)] @@ [units |-> Str])}

\* x.<k> = v: a plain attribute assignment; nothing runs after it
Assign(k, v) ==
    /\ s # {}
    /\ s' = {[i EXCEPT ![k] = v] : i \in s}
    /\ out' = Call("assign", "", Done, AbsentFile)
    /\ UNCHANGED <<arg, data, files, saved>>
    /\ UNCHANGED canvasVars

\* x.save(l), the write succeeding
Save(l) ==
    /\ s # {}
    /\ files' = [files EXCEPT ![l] = file_after_save(CHOOSE i \in s : TRUE, files[l])]
    /\ saved' = [saved EXCEPT ![l] = s]
    /\ out' = Call("save", l, Done, AbsentFile)
    /\ UNCHANGED <<s, arg, data>>
    /\ UNCHANGED canvasVars

\* x.save(l), the file system refusing: before the file is opened (it is left as it
\* was) or while it is written (it is left truncated); IOError reaches the caller
SaveFails(l, truncated) ==
    /\ s # {}
    /\ files' = IF truncated THEN [files EXCEPT ![l] = GarbageFile] ELSE files
    /\ saved' = IF truncated THEN [saved EXCEPT ![l] = {}] ELSE saved
    /\ out' = Call("save", l, Raised("IOError", <<"write failed">>), AbsentFile)
    /\ UNCHANGED <<s, arg, data>>
    /\ UNCHANGED canvasVars

\* x = MachineSettings.load(l)
Load(l) ==
    /\ out' = Call("load", l, load(files[l]), files[l])
    /\ s' = IF load(files[l]).ok THEN load(files[l]).value ELSE s
    /\ UNCHANGED <<arg, data, files, saved>>
    /\ UNCHANGED canvasVars

\* something other than save writes the location
WriteFile(l, c) ==
    /\ files[l] # c
    /\ files' = [files EXCEPT ![l] = c]
    /\ saved' = [saved EXCEPT ![l] = {}]
    /\ UNCHANGED <<s, arg, data, out>>
    /\ UNCHANGED canvasVars

\* the location is deleted
RemoveFile(l) ==
    /\ files[l].kind # "absent"
    /\ files' = [files EXCEPT ![l] = AbsentFile]
    /\ saved' = [saved EXCEPT ![l] = {}]
    /\ UNCHANGED <<s, arg, data, out>>
    /\ UNCHANGED canvasVars

Init ==
    /\ s = {}
    /\ arg = NoKwargs
    /\ data = NoKwargs
    /\ files = [l \in Locations |-> AbsentFile]
    /\ saved = [l \in Locations |-> {}]
    /\ out = NoCall
    /\ CanvasInit

Next ==
    \/ Construct(NoKwargs)
    \/ \E c \in HeldCandidates : Construct(c)
    \/ \E m \in HeldDicts : FromDict(m)
    \/ \E k \in RequiredKeys, v \in AssignVals : Assign(k, v)
    \/ \E l \in Locations : Save(l)
    \/ \E l \in Locations, truncated \in BOOLEAN : SaveFails(l, truncated)
    \/ \E l \in Locations : Load(l)
    \/ \E l \in Locations, c \in ForeignFiles : WriteFile(l, c)
    \/ \E l \in Locations : RemoveFile(l)

Spec == Init /\ [][Next]_vars

----------------------------------------------------------------------------
(* CanvasSpec: the DrawingCanvas handlers, called in any order.  A point   *)
(* is a pair of coordinates, a path the sequence of points moved and drawn *)
(* to.                                                                     *)

Points == (0..MaxCoord) \X (0..MaxCoord)
Buttons == {"left", "right"}

\* the truth value of an attribute holding None or a QPoint: the binding takes a
\* QPoint's truth value from isNull(), so the point (0, 0) is false
truthy_point(p) == \E q \in p : q # <<0, 0>>

mousePressEvent(button, pos) ==
    /\ IF button = "left"
       THEN /\ drawing' = TRUE
            /\ last_point' = {pos}
            /\ current_path' = {<<pos>>}
       ELSE UNCHANGED <<drawing, last_point, current_path>>
    /\ raised' = ""
    /\ UNCHANGED paths
    /\ UNCHANGED settingsVars

mouseMoveEvent(pos) ==
    /\ \A path \in current_path : Len(path) < MaxPathLen
    /\ IF drawing /\ truthy_point(last_point)
       THEN IF current_path = {}
            THEN \* None.lineTo: AttributeError leaves the handler at once
                 /\ raised' = "AttributeError"
                 /\ UNCHANGED <<last_point, current_path>>
            ELSE /\ current_path' = {Append(path, pos) : path \in current_path}
                 /\ last_point' = {pos}
                 /\ raised' = ""
       ELSE /\ raised' = ""
            /\ UNCHANGED <<last_point, current_path>>
    /\ UNCHANGED <<drawing, paths>>
    /\ UNCHANGED settingsVars

mouseReleaseEvent(button) ==
    /\ current_path # {} => Len(paths) < MaxPaths
    /\ IF button = "left" /\ drawing
       THEN /\ drawing' = FALSE
            /\ IF current_path # {}
               THEN /\ paths' = Append(paths, CHOOSE path \in current_path : TRUE)
                    /\ current_path' = {}
               ELSE UNCHANGED <<paths, current_path>>
       ELSE UNCHANGED <<drawing, paths, current_path>>
    /\ raised' = ""
    /\ UNCHANGED last_point
    /\ UNCHANGED settingsVars

clear ==
    /\ paths' = <<>>
    /\ current_path' = {}
    /\ raised' = ""
    /\ UNCHANGED <<drawing, last_point>>
    /\ UNCHANGED settingsVars

CanvasSpecInit ==
    /\ CanvasInit
    /\ s = {}
    /\ arg = NoKwargs
    /\ data = NoKwargs
    /\ files = NoFiles
    /\ saved = NoSaved
    /\ out = NoCall

CanvasNext ==
    \/ \E button \in Buttons, pos \in Points : mousePressEvent(button, pos)
    \/ \E pos \in Points : mouseMoveEvent(pos)
    \/ \E button \in Buttons : mouseReleaseEvent(button)
    \/ clear

CanvasSpec == CanvasSpecInit /\ [][CanvasNext]_vars

----------------------------------------------------------------------------
(* The invariants of a settings record, as the data model states them *)

Valid(i) ==
    /\ Le(Num(MIN_DIMENSION), i.bed_width) /\ Le(i.bed_width, Num(MAX_DIMENSION))
    /\ Le(Num(MIN_DIMENSION), i.bed_height) /\ Le(i.bed_height, Num(MAX_DIMENSION))
    /\ Le(Num(MIN_FEED_RATE), i.feed_rate) /\ Le(i.feed_rate, Num(MAX_FEED_RATE))
    /\ Le(i.pen_down_position, i.pen_up_position)
    /\ Le(i.pen_up_position, i.safe_z)

AllNumbers(i) == \A k \in RequiredKeys : IsNumber(i[k])

----------------------------------------------------------------------------
(* Claims about the constructor (CtorSpec) *)

InBounds(c) ==
    /\ MIN_DIMENSION <= c.bed_width.v /\ c.bed_width.v <= MAX_DIMENSION
    /\ MIN_DIMENSION <= c.bed_height.v /\ c.bed_height.v <= MAX_DIMENSION
    /\ MIN_FEED_RATE <= c.feed_rate.v /\ c.feed_rate.v <= MAX_FEED_RATE
    /\ c.pen_down_position.v <= c.pen_up_position.v
    /\ c.pen_up_position.v <= c.safe_z.v

\* C7: constructing from six numbers succeeds exactly when the dimensions and the
\* feed rate lie within their inclusive bounds and pen_down <= pen_up <= safe_z;
\* otherwise ValueError is raised; on success the instance holds the values given.
C7_ConstructIffInBounds ==
    (out.op = "init" /\ AllNumbers(arg)) =>
        /\ out.res.ok <=> InBounds(arg)
        /\ out.res.ok => out.res.value = {arg} /\ s = {arg}
        /\ ~out.res.ok => out.res.exc = "ValueError"

\* a construction with the width at MIN, the height at MAX, the feed rate at MAX and
\* the three z heights equal has succeeded
C7_Witness ==
    /\ out.op = "init" /\ out.res.ok
    /\ arg.bed_width = Num(MIN_DIMENSION) /\ arg.bed_height = Num(MAX_DIMENSION)
    /\ arg.feed_rate = Num(MAX_FEED_RATE)
    /\ arg.pen_down_position = arg.pen_up_position /\ arg.pen_up_position = arg.safe_z

\* the rules in the order the specification lists them, with the reason each reports
RuleHolds(j, c) ==
    CASE j = 1 -> MIN_DIMENSION <= c.bed_width.v /\ c.bed_width.v <= MAX_DIMENSION
      [] j = 2 -> MIN_DIMENSION <= c.bed_height.v /\ c.bed_height.v <= MAX_DIMENSION
      [] j = 3 -> MIN_FEED_RATE <= c.feed_rate.v /\ c.feed_rate.v <= MAX_FEED_RATE
      [] j = 4 -> c.pen_down_position.v <= c.pen_up_position.v
      [] OTHER -> c.pen_up_position.v <= c.safe_z.v

RuleReason ==
    << <<"Bed width must be between 0.1 and 1000.0mm">>,
       <<"Bed height must be between 0.1 and 1000.0mm">>,
       <<"Feed rate must be between 1.0 and 5000.0mm/min">>,
       <<"Pen down position must be lower than pen up position">>,
       <<"Safe Z must be higher than pen up position">> >>

Violated(c) == {j \in 1..5 : ~RuleHolds(j, c)}

\* C9: the failure reported for six numbers is that of the earliest violated rule in the
\* order width, height, feed rate, pen_down <= pen_up, pen_up <= safe_z; no violated
\* rule, no failure.
C9_EarliestRuleReported ==
    (out.op = "init" /\ AllNumbers(arg)) =>
        /\ Violated(arg) = {} => out.res.ok
        /\ \A j \in Violated(arg) :
              (\A j2 \in Violated(arg) : j <= j2) =>
                  ~out.res.ok /\ out.res.msg = RuleReason[j]

\* a candidate violating the height, feed-rate and both z rules was reported for its height
C9_Witness ==
    /\ out.op = "init" /\ AllNumbers(arg)
    /\ Violated(arg) = {2, 3, 4, 5}
    /\ out.res.msg = RuleReason[2]

\* C4: for a valid instance, to_dict gives exactly the six keys with the instance's
\* values, and from_dict of that dictionary returns an instance equal to it.
C4_RoundTrip ==
    (out.op = "round_trip" /\ \A i \in s : Valid(i)) =>
        /\ DOMAIN data = RequiredKeys
        /\ \A i \in s : \A k \in RequiredKeys : data[k] = i[k]
        /\ out.res.ok /\ out.res.value = s

\* a valid instance other than the defaults has made the round trip
C4_Witness ==
    /\ out.op = "round_trip" /\ out.res.ok
    /\ \E i \in s : Valid(i) /\ i # Defaults /\ i.pen_down_position # i.safe_z

----------------------------------------------------------------------------
(* Claims about from_dict (DictSpec) *)

\* C6: when a non-empty set K of required keys is absent, from_dict raises KeyError
\* naming exactly K, whatever the other values and keys are.
C6_MissingKeysNamed ==
    (out.op = "from_dict" /\ RequiredKeys \ DOMAIN data # {}) =>
        /\ ~out.res.ok /\ out.res.exc = "KeyError"
        /\ out.res.missing = RequiredKeys \ DOMAIN data
        /\ s = {}

\* two keys are absent, a key that is present holds text, an extra key is present,
\* and KeyError was raised
C6_Witness ==
    /\ out.op = "from_dict" /\ out.res.exc = "KeyError"
    /\ RequiredKeys \ DOMAIN data = {"safe_z", "feed_rate"}
    /\ data["bed_width"] = Str
    /\ DOMAIN data \ RequiredKeys # {}

Restricted(d) == [k \in DOMAIN d \cap RequiredKeys |-> d[k]]

\* C8: for a dictionary holding all six keys, from_dict gives the outcome it gives for
\* the dictionary restricted to the six keys.
C8_ExtraKeysIgnored ==
    (out.op = "from_dict" /\ RequiredKeys \subseteq DOMAIN data) =>
        out.res = from_dict(Restricted(data))

\* a dictionary with a key outside the six, holding text, was accepted
C8_Witness ==
    /\ out.op = "from_dict" /\ out.res.ok
    /\ \E k \in DOMAIN data \ RequiredKeys : data[k] = Str

Numeric(v) == float(v).ok /\ \A x \in float(v).value : IsNumber(x)

NumbersOf(d) == [k \in RequiredKeys |-> CHOOSE x \in float(d[k]).value : TRUE]

\* C5: a validation failure (all six values numeric, a bound or the ordering violated)
\* is reported as a kind of error other than the one reported when a value is not a
\* number.
C5_ValidationKindDistinct ==
    (/\ out.op = "from_dict" /\ RequiredKeys \subseteq DOMAIN data
     /\ \A k \in RequiredKeys : Numeric(data[k])
     /\ ~Valid(NumbersOf(data))) =>
        /\ ~out.res.ok
        /\ \A k \in RequiredKeys : from_dict([data EXCEPT ![k] = Str]).exc # out.res.exc

----------------------------------------------------------------------------
(* Claims about the held instance and the files (Spec) *)

\* C1: every live instance satisfies the three invariants, whatever sequence of
\* constructions, from_dict and load calls and field assignments produced it.
C1_LiveInstancesValid == \A i \in s : Valid(i)

\* the content of a location is one load must not accept: not JSON, not an object,
\* lacking a key, holding a value that is not a number, or violating the invariants
BadContent(c) ==
    \/ c.kind \in {"garbage", "array"}
    \/ /\ c.kind = "object"
       /\ \/ ~(RequiredKeys \subseteq DOMAIN c.members)
          \/ \E k \in RequiredKeys : ~Numeric(json_load(c)[k])
          \/ ~Valid(NumbersOf(json_load(c)))

\* C2: load returns the defaults without raising when the location does not exist,
\* and raises whenever the location exists with content that is not JSON, lacks
\* keys, holds non-numeric values or violates the invariants.
C2_DefaultsOnlyWhenAbsent ==
    out.op = "load" =>
        /\ out.read.kind = "absent" => out.res = Returned(Defaults)
        /\ BadContent(out.read) => ~out.res.ok

\* C3: a load of a location last written by a successful save of a valid instance
\* returns an instance equal to that one.
C3_LoadReturnsLastSaved ==
    (out.op = "load" /\ \E x \in saved[out.loc] : Valid(x)) =>
        out.res.ok /\ out.res.value = saved[out.loc] /\ s = saved[out.loc]

\* a load has returned a saved valid instance that differs from the defaults
C3_Witness ==
    /\ out.op = "load" /\ out.res.ok
    /\ \E x \in saved[out.loc] : Valid(x) /\ x # Defaults /\ out.res.value = {x}

----------------------------------------------------------------------------
(* Claim about the canvas (CanvasSpec) *)

\* C10: whenever drawing is True and last_point is set, current_path is not None.
C10_PathWhileDrawing == (drawing /\ truthy_point(last_point)) => current_path # {}

====
